---- MODULE Spec2Model ----
(***************************************************************************)
(* The war card game server and client of src/war.py.                      *)
(*                                                                         *)
(* Spec / FairSpec : one game session, handle_game_clients, run by its own *)
(*   thread against two peers that may send anything, close, reset or stay *)
(*   silent.                                                               *)
(* SpecLimiter     : the "clients" mode of main: num_clients agents behind *)
(*   an asyncio.Semaphore, collected by run_all_clients.                   *)
(***************************************************************************)
EXTENDS Integers, Sequences, FiniteSets, TLC

(***************************************************************************)
(* Program constants                                                       *)
(***************************************************************************)
WANTGAME == 0
GAMESTART == 1
PLAYCARD == 2
PLAYRESULT == 3

WIN == 0
DRAW == 1
LOSE == 2

\* byte_buffer = 2: the size handed to every recv of the session
byte_buffer == 2

\* for i in range(1, 27): the last value of the round counter
LastRound == 26

\* reader.readexactly(27): one tag byte and the cards of one hand
GameStartLen == 27

\* reader.readexactly(2): one PlayResult message
ResultLen == 2

(***************************************************************************)
(* Bounds of the model                                                     *)
(***************************************************************************)
\* the agents the limiter is asked to run: num_clients in 0..MaxClients
MaxClients == 3

\* the most agents run against the server
MaxServe == 4

\* the ceiling of the semaphore (asyncio.Semaphore(1000) in the source),
\* scaled down so that num_clients can exceed it
Ceiling == 2

\* the byte values the peers put on the wire: 0 is the WantGame tag, the
\* reserved zero byte and a card of rank 0; 2 is the PlayCard tag and a card
\* of rank 2; 13 is no tag of a round or of the handshake, and a card of
\* rank 0 of another suit (13 > 2 as bytes, 0 < 2 as ranks)
ByteVals == {0, 2, 13}

Sides == {1, 2}

\* the value of a local variable that no statement has assigned yet
Unbound == <<-1>>

\* what one recv(byte_buffer) can return: zero bytes (the peer closed), a
\* short read, or byte_buffer bytes
RecvBytes ==
  UNION {[1..n -> ByteVals] : n \in 0..byte_buffer}

Agents == 1..MaxClients

\* the longest stream handed to readexactly, and the largest numbytes
MaxStream == 4

MaxNumBytes == 3

\* the zero-length reads that are told apart (the count saturates here)
MaxZeroReads == 2

\* the byte values of the streams handed to readexactly
StreamVals == {7, 9}

\* list(range(52)): the size of the deck, and of one hand
DeckSize == 52

HalfDeck == 26

\* the shuffles considered: card_deck[i] = (m * i + k) mod 52 for the
\* multipliers m below, which are prime to 52, and every offset k
ShuffleMults == {1, 3, 5, 7, 11}

\* and the rotations of the second half of such a deck
ShuffleRots == {0, 1, 5}

VARIABLES
  \* ---- one session: handle_game_clients(player_one, player_two) ----
  pc,                    \* the statement the session thread is at
  exit,                  \* how the thread left handle_game_clients
  round,                 \* the loop variable i (0 before the loop)
  ready,                 \* ready[s]: connection s has something for recv
  closes,                \* closes[s]: calls of close() on connection s
  gsSent,                \* gsSent[s]: GameStart messages sent to s
  prSent,                \* prSent[s]: PlayResult messages sent to s
  recvd,                 \* recvd[s]: recv calls of the rounds that returned
  ioCalls,               \* recv and sendall calls made so far
  player_one_data,
  player_two_data,
  player_one_play_card,
  player_two_play_card,
  player_one_result,
  player_two_result,
  \* ---- the limiter: main, run_all_clients, limit_client, client ----
  num_clients,           \* int(args[3])
  sem,                   \* the value of the semaphore
  cpc,                   \* cpc[a]: where agent a is
  cread,                 \* cread[a]: PlayResults read in the running loop
  classified,            \* classified[a]: agent a logged won, lost or drew
  ret,                   \* ret[a]: what client() returned for agent a
  collected,             \* the agents run_all_clients has awaited
  completed_clients,     \* the local of run_all_clients
  rpc                    \* where run_all_clients is

svars == <<pc, exit, round, ready, closes, gsSent, prSent, recvd, ioCalls,
           player_one_data, player_two_data, player_one_play_card,
           player_two_play_card, player_one_result, player_two_result>>

lvars == <<num_clients, sem, cpc, cread, classified, ret, collected,
           completed_clients, rpc>>

VARIABLES
  \* ---- readexactly(sock, numbytes) ----
  rx_all,                \* every byte the stream carries, from its start
  rx_wire,               \* the bytes of the stream no recv has returned yet
  rx_open,               \* the peer has not closed the stream
  rx_n,                  \* numbytes
  rx_data,               \* recieved_data
  rx_zero,               \* recv calls that returned zero bytes (saturating)
  rx_pc,                 \* where readexactly is
  \* ---- deal_cards() and the sending of its two messages ----
  card_deck,
  player_one_hand,
  player_two_hand,
  gs_wire,               \* gs_wire[s]: the GameStart bytes sent to side s
  d_pc,
  \* ---- the connections of the agents, and client() itself ----
  c2s,                   \* c2s[a]: bytes agent a wrote, still on their way
  sbuf,                  \* sbuf[a]: bytes of agent a the server can recv
  s2c,                   \* s2c[a]: bytes sent to agent a that it has not read
  s2c_eof,               \* s2c_eof[a]: the peer of agent a closed
  card_msg,              \* card_msg[a]: the 27 bytes agent a read
  myscore,
  outcome,               \* outcome[a]: "won", "lost" or "drew" once logged
  \* ---- serve_game: the listener and the games it started ----
  lpc,                   \* the accept call the listener is in
  first_player,          \* the agent accepted as player one (0: none)
  partner,               \* partner[a]: the agent paired with a (0: none)
  gst,                   \* gst[g]: the state of the game of player one g
  grnd                   \* grnd[g]: rounds whose results game g has sent

rvars == <<rx_all, rx_wire, rx_open, rx_n, rx_data, rx_zero, rx_pc>>

dvars == <<card_deck, player_one_hand, player_two_hand, gs_wire, d_pc>>

nvars == <<c2s, sbuf, s2c, s2c_eof, card_msg, myscore, outcome>>

mvars == <<lpc, first_player, partner, gst, grnd>>

xvars == <<rvars, dvars, nvars, mvars>>

vars == <<svars, lvars, xvars>>

(***************************************************************************)
(* Pure functions of the session                                           *)
(***************************************************************************)
\* kill_game: one close() call on each of the two connections
kill_game(c) == [s \in Sides |-> c[s] + 1]

compare_cards_raw(card1, card2) ==
  IF card1 < card2 THEN -1
  ELSE IF card1 = card2 THEN 0
  ELSE 1

compare_cards(card1, card2) ==
  LET c1 == card1 % 13
      c2 == card2 % 13
  IN  IF c1 < c2 THEN -1
      ELSE IF c1 = c2 THEN 0
      ELSE 1

\* the test of line 126 on one message: data == b'\0\0'
IsWantGame(data) == data = <<WANTGAME, 0>>

IsPlayCard_none(data) == TRUE

\* the test of lines 174 and 178 on one unpacked message
IsPlayCard(data) == data[1] = PLAYCARD

\* player_one_card, player_two_card = data[1] (0-based) of the message
CardOf(data) == data[2]

PackResults_same(cmp) ==
  IF cmp = -1 THEN <<(<<PLAYRESULT, LOSE>>), (<<PLAYRESULT, LOSE>>)>>
  ELSE IF cmp = 1 THEN <<(<<PLAYRESULT, WIN>>), (<<PLAYRESULT, WIN>>)>>
  ELSE <<(<<PLAYRESULT, DRAW>>), (<<PLAYRESULT, DRAW>>)>>

\* lines 194-204: the two PlayResult messages of a round
PackResults(cmp) ==
  IF cmp = -1 THEN <<(<<PLAYRESULT, LOSE>>), (<<PLAYRESULT, WIN>>)>>
  ELSE IF cmp = 1 THEN <<(<<PLAYRESULT, WIN>>), (<<PLAYRESULT, LOSE>>)>>
  ELSE <<(<<PLAYRESULT, DRAW>>), (<<PLAYRESULT, DRAW>>)>>

LoopEnds_late(i) == i >= LastRound + 1

\* range(1, 27) is exhausted after the iteration with i = 26
LoopEnds(i) == i >= LastRound

\* a socket that close() was called on raises on every recv and sendall
Closed(s) == closes[s] > 0

(***************************************************************************)
(* The session                                                             *)
(***************************************************************************)
SessionInit ==
  /\ pc = "wg1"
  /\ exit = "running"
  /\ round = 0
  /\ ready = [s \in Sides |-> FALSE]
  /\ closes = [s \in Sides |-> 0]
  /\ gsSent = [s \in Sides |-> 0]
  /\ prSent = [s \in Sides |-> 0]
  /\ recvd = [s \in Sides |-> 0]
  /\ ioCalls = 0
  /\ player_one_data = Unbound
  /\ player_two_data = Unbound
  /\ player_one_play_card = Unbound
  /\ player_two_play_card = Unbound
  /\ player_one_result = Unbound
  /\ player_two_result = Unbound

\* The peer of connection s makes the connection readable: bytes arrive, or
\* the peer closes or resets.  A peer is free never to do it.
PeerDeliver(s) ==
  /\ pc # "done"
  /\ ~Closed(s)
  /\ ~ready[s]
  /\ ready' = [ready EXCEPT ![s] = TRUE]
  /\ UNCHANGED <<pc, exit, round, closes, gsSent, prSent, recvd, ioCalls,
                 player_one_data, player_two_data, player_one_play_card,
                 player_two_play_card, player_one_result, player_two_result>>
  /\ UNCHANGED lvars
  /\ UNCHANGED xvars

\* line 121: player_one_data = player_one.recv(byte_buffer), outside any try
RecvWantGame1 ==
  /\ pc = "wg1"
  /\ ready[1]
  /\ ready' = [ready EXCEPT ![1] = FALSE]
  /\ ioCalls' = ioCalls + 1
  /\ \/ \E b \in RecvBytes :
          /\ player_one_data' = b
          /\ pc' = "wg2"
          /\ exit' = exit
     \/ /\ pc' = "done"                \* socket.error leaves the thread
        /\ exit' = "crash"
        /\ player_one_data' = player_one_data
  /\ UNCHANGED <<round, closes, gsSent, prSent, recvd, player_two_data,
                 player_one_play_card, player_two_play_card,
                 player_one_result, player_two_result>>
  /\ UNCHANGED lvars
  /\ UNCHANGED xvars

\* lines 122-132: the second recv, the WantGame test, deal_cards
RecvWantGame2 ==
  /\ pc = "wg2"
  /\ ready[2]
  /\ ready' = [ready EXCEPT ![2] = FALSE]
  /\ ioCalls' = ioCalls + 1
  /\ \/ \E b \in RecvBytes :
          /\ player_two_data' = b
          /\ IF ~IsWantGame(player_one_data) \/ ~IsWantGame(b)
             THEN /\ closes' = kill_game(closes)
                  /\ pc' = "done"
                  /\ exit' = "badwantgame"
             ELSE /\ closes' = closes
                  /\ pc' = "sendgs"
                  /\ exit' = exit
     \/ /\ pc' = "done"                \* socket.error leaves the thread
        /\ exit' = "crash"
        /\ closes' = closes
        /\ player_two_data' = player_two_data
  /\ UNCHANGED <<round, gsSent, prSent, recvd, player_one_data,
                 player_one_play_card, player_two_play_card,
                 player_one_result, player_two_result>>
  /\ UNCHANGED lvars
  /\ UNCHANGED xvars

\* lines 135-147: the two sendall of the GameStart messages in one try, the
\* except that calls kill_game and goes on, and the entry of the loop
SendGameStart ==
  /\ pc = "sendgs"
  /\ \/ /\ ~Closed(1) /\ ~Closed(2)          \* both sendall return
        /\ gsSent' = [s \in Sides |-> gsSent[s] + 1]
        /\ ioCalls' = ioCalls + 2
        /\ closes' = closes
     \/ /\ ioCalls' = ioCalls + 1            \* the first sendall raises
        /\ gsSent' = gsSent
        /\ closes' = kill_game(closes)
     \/ /\ ~Closed(1)                        \* the second sendall raises
        /\ gsSent' = [gsSent EXCEPT ![1] = @ + 1]
        /\ ioCalls' = ioCalls + 2
        /\ closes' = kill_game(closes)
  /\ round' = 1
  /\ pc' = "r_recv1"
  /\ UNCHANGED <<exit, ready, prSent, recvd, player_one_data,
                 player_two_data, player_one_play_card, player_two_play_card,
                 player_one_result, player_two_result>>
  /\ UNCHANGED lvars
  /\ UNCHANGED xvars

\* lines 150-151 (and 153-155 when it raises): the recv of side 1 in a round
RoundRecv1 ==
  /\ pc = "r_recv1"
  /\ Closed(1) \/ ready[1]
  /\ ioCalls' = ioCalls + 1
  /\ \/ /\ ~Closed(1)
        /\ \E b \in RecvBytes : player_one_play_card' = b
        /\ ready' = [ready EXCEPT ![1] = FALSE]
        /\ recvd' = [recvd EXCEPT ![1] = @ + 1]
        /\ closes' = closes
        /\ pc' = "r_recv2"
     \/ /\ player_one_play_card' = player_one_play_card
        /\ ready' = [ready EXCEPT ![1] = FALSE]
        /\ recvd' = recvd
        /\ closes' = kill_game(closes)
        /\ pc' = "r_decode"
  /\ UNCHANGED <<exit, round, gsSent, prSent, player_one_data,
                 player_two_data, player_two_play_card,
                 player_one_result, player_two_result>>
  /\ UNCHANGED lvars
  /\ UNCHANGED xvars

\* line 152 (and 153-155 when it raises): the recv of side 2 in a round
RoundRecv2 ==
  /\ pc = "r_recv2"
  /\ Closed(2) \/ ready[2]
  /\ ioCalls' = ioCalls + 1
  /\ \/ /\ ~Closed(2)
        /\ \E b \in RecvBytes : player_two_play_card' = b
        /\ ready' = [ready EXCEPT ![2] = FALSE]
        /\ recvd' = [recvd EXCEPT ![2] = @ + 1]
        /\ closes' = closes
     \/ /\ player_two_play_card' = player_two_play_card
        /\ ready' = [ready EXCEPT ![2] = FALSE]
        /\ recvd' = recvd
        /\ closes' = kill_game(closes)
  /\ pc' = "r_decode"
  /\ UNCHANGED <<exit, round, gsSent, prSent, player_one_data,
                 player_two_data, player_one_play_card,
                 player_one_result, player_two_result>>
  /\ UNCHANGED lvars
  /\ UNCHANGED xvars

\* lines 160-180: the two struct.unpack in one try, the except that calls
\* kill_game and goes on, and the two tag tests
RoundDecode ==
  /\ pc = "r_decode"
  /\ IF player_one_play_card = Unbound
     THEN \* line 161 reads a local no recv has assigned: UnboundLocalError
          /\ pc' = "done"
          /\ exit' = "crash"
          /\ UNCHANGED <<closes, player_one_data, player_two_data>>
     ELSE IF Len(player_one_play_card) = byte_buffer
             /\ player_two_play_card = Unbound
     THEN \* line 161 assigns, line 162 raises UnboundLocalError
          /\ player_one_data' = player_one_play_card
          /\ pc' = "done"
          /\ exit' = "crash"
          /\ UNCHANGED <<closes, player_two_data>>
     ELSE LET ok1 == Len(player_one_play_card) = byte_buffer
              ok2 == ok1 /\ Len(player_two_play_card) = byte_buffer
              d1 == IF ok1 THEN player_one_play_card ELSE player_one_data
              d2 == IF ok2 THEN player_two_play_card ELSE player_two_data
              c  == IF ok2 THEN closes ELSE kill_game(closes)
          IN  /\ player_one_data' = d1
              /\ player_two_data' = d2
              /\ IF ~IsPlayCard(d1) \/ ~IsPlayCard(d2)
                 THEN /\ closes' = kill_game(c)
                      /\ pc' = "done"
                      /\ exit' = "badtag"
                 ELSE /\ closes' = c
                      /\ pc' = "r_result"
                      /\ exit' = exit
  /\ UNCHANGED <<round, ready, gsSent, prSent, recvd, ioCalls,
                 player_one_play_card, player_two_play_card,
                 player_one_result, player_two_result>>
  /\ UNCHANGED lvars
  /\ UNCHANGED xvars

\* lines 183-214: compare_cards, the two PlayResult messages, the two sendall
\* in one try and the except that calls kill_game and goes on
RoundResult ==
  /\ pc = "r_result"
  /\ LET res == PackResults(compare_cards(CardOf(player_one_data),
                                          CardOf(player_two_data)))
     IN  /\ player_one_result' = res[1]
         /\ player_two_result' = res[2]
  /\ \/ /\ ~Closed(1) /\ ~Closed(2)          \* both sendall return
        /\ prSent' = [s \in Sides |-> prSent[s] + 1]
        /\ ioCalls' = ioCalls + 2
        /\ closes' = closes
     \/ /\ ioCalls' = ioCalls + 1            \* the first sendall raises
        /\ prSent' = prSent
        /\ closes' = kill_game(closes)
     \/ /\ ~Closed(1)                        \* the second sendall raises
        /\ prSent' = [prSent EXCEPT ![1] = @ + 1]
        /\ ioCalls' = ioCalls + 2
        /\ closes' = kill_game(closes)
  /\ pc' = "r_next"
  /\ UNCHANGED <<exit, round, ready, gsSent, recvd, player_one_data,
                 player_two_data, player_one_play_card, player_two_play_card>>
  /\ UNCHANGED lvars
  /\ UNCHANGED xvars

\* lines 217, 147 and 218: the end of an iteration, the next value of i, or
\* the return after the last one
RoundNext ==
  /\ pc = "r_next"
  /\ IF LoopEnds(round)
     THEN /\ pc' = "done"
          /\ exit' = "completed"
          /\ round' = round
     ELSE /\ pc' = "r_recv1"
          /\ exit' = exit
          /\ round' = round + 1
  /\ UNCHANGED <<ready, closes, gsSent, prSent, recvd, ioCalls,
                 player_one_data, player_two_data, player_one_play_card,
                 player_two_play_card, player_one_result, player_two_result>>
  /\ UNCHANGED lvars
  /\ UNCHANGED xvars

SessionStep ==
  \/ RecvWantGame1
  \/ RecvWantGame2
  \/ SendGameStart
  \/ RoundRecv1
  \/ RoundRecv2
  \/ RoundDecode
  \/ RoundResult
  \/ RoundNext

(***************************************************************************)
(* The limiter (idle in the specifications of the session)                 *)
(***************************************************************************)
LimiterIdle ==
  /\ num_clients = 0
  /\ sem = Ceiling
  /\ cpc = [a \in Agents |-> "none"]
  /\ cread = [a \in Agents |-> 0]
  /\ classified = [a \in Agents |-> FALSE]
  /\ ret = [a \in Agents |-> 0]
  /\ collected = {}
  /\ completed_clients = 0
  /\ rpc = "idle"

(***************************************************************************)
(* readexactly                                                             *)
(***************************************************************************)
Min(x, y) == IF x <= y THEN x ELSE y

Streams == UNION {[1..n -> StreamVals] : n \in 0..MaxStream}

Drop(q, k) == SubSeq(q, k + 1, Len(q))

\* sock.recv(size): the lengths it may return.  With bytes waiting it
\* returns at least one and at most size of them; at the end of a closed
\* stream it returns zero bytes; at the end of an open one it does not return.
RecvLens(wire, open, size) ==
  IF Len(wire) > 0 THEN 1..Min(size, Len(wire))
  ELSE IF open THEN {}
  ELSE {0}

ReadIdle ==
  /\ rx_all = <<>>
  /\ rx_wire = <<>>
  /\ rx_open = FALSE
  /\ rx_n = 1
  /\ rx_data = <<>>
  /\ rx_zero = 0
  /\ rx_pc = "idle"

ReadInit ==
  /\ rx_all \in Streams
  /\ rx_wire = rx_all
  /\ rx_open \in BOOLEAN
  /\ rx_n \in 1..MaxNumBytes
  /\ rx_data = <<>>
  /\ rx_zero = 0
  /\ rx_pc = "first"

\* line 49: recieved_data = sock.recv(numbytes)
ReadFirst ==
  /\ rx_pc = "first"
  /\ \E k \in RecvLens(rx_wire, rx_open, rx_n) :
       /\ rx_data' = SubSeq(rx_wire, 1, k)
       /\ rx_wire' = Drop(rx_wire, k)
       /\ rx_zero' = IF k = 0 THEN Min(rx_zero + 1, MaxZeroReads) ELSE rx_zero
  /\ rx_pc' = "loop"
  /\ UNCHANGED <<rx_all, rx_open, rx_n>>
  /\ UNCHANGED <<svars, lvars, dvars, nvars, mvars>>

\* lines 50-51: while len(recieved_data) < numbytes:
\*                  recieved_data += sock.recv(numbytes)
ReadMore ==
  /\ rx_pc = "loop"
  /\ Len(rx_data) < rx_n
  /\ \E k \in RecvLens(rx_wire, rx_open, rx_n) :
       /\ rx_data' = rx_data \o SubSeq(rx_wire, 1, k)
       /\ rx_wire' = Drop(rx_wire, k)
       /\ rx_zero' = IF k = 0 THEN Min(rx_zero + 1, MaxZeroReads) ELSE rx_zero
  /\ UNCHANGED <<rx_all, rx_open, rx_n, rx_pc>>
  /\ UNCHANGED <<svars, lvars, dvars, nvars, mvars>>

\* line 52: return recieved_data
ReadReturn ==
  /\ rx_pc = "loop"
  /\ Len(rx_data) >= rx_n
  /\ rx_pc' = "returned"
  /\ UNCHANGED <<rx_all, rx_wire, rx_open, rx_n, rx_data, rx_zero>>
  /\ UNCHANGED <<svars, lvars, dvars, nvars, mvars>>

(***************************************************************************)
(* deal_cards                                                              *)
(***************************************************************************)
Affine(m, k) == [i \in 1..DeckSize |-> (m * (i - 1) + k) % DeckSize]

\* the deck q with its second half rotated by r places
RotHalf(q, r) ==
  [i \in 1..DeckSize |->
     IF i <= HalfDeck THEN q[i]
     ELSE q[HalfDeck + 1 + ((i - HalfDeck - 1 + r) % HalfDeck)]]

Shuffles ==
  {RotHalf(Affine(m, k), r) :
     m \in ShuffleMults, k \in 0..(DeckSize - 1), r \in ShuffleRots}

Range(q) == {q[i] : i \in 1..Len(q)}

\* struct.pack('27B', Command.GAMESTART.value, *deck)
PackGameStart(cards) == <<GAMESTART>> \o cards

deal_cards_overlap(deck) ==
  <<PackGameStart(SubSeq(deck, 1, HalfDeck)),
    PackGameStart(SubSeq(deck, HalfDeck, DeckSize - 1))>>

\* lines 96-108: card_deck[:26] and card_deck[26:], each packed behind the
\* GameStart tag
deal_cards(deck) ==
  <<PackGameStart(SubSeq(deck, 1, HalfDeck)),
    PackGameStart(SubSeq(deck, HalfDeck + 1, DeckSize))>>

DealIdle ==
  /\ card_deck = <<>>
  /\ player_one_hand = <<>>
  /\ player_two_hand = <<>>
  /\ gs_wire = [s \in Sides |-> <<>>]
  /\ d_pc = "idle"

DealInit ==
  /\ card_deck = [i \in 1..DeckSize |-> i - 1]
  /\ player_one_hand = <<>>
  /\ player_two_hand = <<>>
  /\ gs_wire = [s \in Sides |-> <<>>]
  /\ d_pc = "shuffle"

\* lines 90-93: random.shuffle(card_deck)
DealShuffle ==
  /\ d_pc = "shuffle"
  /\ card_deck' \in Shuffles
  /\ d_pc' = "split"
  /\ UNCHANGED <<player_one_hand, player_two_hand, gs_wire>>
  /\ UNCHANGED <<svars, lvars, rvars, nvars, mvars>>

\* lines 96-108 and 132: the two hands, packed
DealSplit ==
  /\ d_pc = "split"
  /\ player_one_hand' = deal_cards(card_deck)[1]
  /\ player_two_hand' = deal_cards(card_deck)[2]
  /\ d_pc' = "send"
  /\ UNCHANGED <<card_deck, gs_wire>>
  /\ UNCHANGED <<svars, lvars, rvars, nvars, mvars>>

\* lines 136-137: player_one.sendall(player_one_hand) and
\* player_two.sendall(player_two_hand)
DealSend ==
  /\ d_pc = "send"
  /\ gs_wire' = [s \in Sides |->
                   IF s = 1 THEN player_one_hand ELSE player_two_hand]
  /\ d_pc' = "sent"
  /\ UNCHANGED <<card_deck, player_one_hand, player_two_hand>>
  /\ UNCHANGED <<svars, lvars, rvars, nvars, mvars>>

\* no agent is connected
NetIdle ==
  /\ c2s = [a \in Agents |-> <<>>]
  /\ sbuf = [a \in Agents |-> <<>>]
  /\ s2c = [a \in Agents |-> <<>>]
  /\ s2c_eof = [a \in Agents |-> FALSE]
  /\ card_msg = [a \in Agents |-> <<>>]
  /\ myscore = [a \in Agents |-> 0]
  /\ outcome = [a \in Agents |-> "none"]

\* lines 240-245: the listener waits for a first connection, no game runs
ServeIdle ==
  /\ lpc = "accept1"
  /\ first_player = 0
  /\ partner = [a \in Agents |-> 0]
  /\ gst = [a \in Agents |-> "none"]
  /\ grnd = [a \in Agents |-> 0]

ExtraIdle == ReadIdle /\ DealIdle /\ NetIdle /\ ServeIdle

InitRead ==
  SessionInit /\ LimiterIdle /\ ReadInit /\ DealIdle /\ NetIdle /\ ServeIdle

NextRead ==
  \/ ReadFirst
  \/ ReadMore
  \/ ReadReturn

SpecRead == InitRead /\ [][NextRead]_vars

InitDeal ==
  SessionInit /\ LimiterIdle /\ ReadIdle /\ DealInit /\ NetIdle /\ ServeIdle

NextDeal ==
  \/ DealShuffle
  \/ DealSplit
  \/ DealSend

SpecDeal == InitDeal /\ [][NextDeal]_vars

HandLen == GameStartLen - 1

SemFree_always(v) == TRUE

\* Semaphore.acquire goes on without waiting only while the value is positive
SemFree(v) == v > 0

Accumulate_count(total, r) == total + 1

\* line 340: completed_clients += await client_result
Accumulate(total, r) == total + r

\* the agents that hold the semaphore: inside "async with sem"
InFlight == {a \in Agents : cpc[a] \in {"connect", "gamestart", "playing"}}

\* lines 329-332 and 338: the semaphore, the num_clients coroutines, the
\* local of run_all_clients
LimiterInit ==
  /\ num_clients \in 0..MaxClients
  /\ sem = Ceiling
  /\ cpc = [a \in Agents |-> IF a <= num_clients THEN "queued" ELSE "none"]
  /\ cread = [a \in Agents |-> 0]
  /\ classified = [a \in Agents |-> FALSE]
  /\ ret = [a \in Agents |-> 0]
  /\ collected = {}
  /\ completed_clients = 0
  /\ rpc = "collecting"

\* line 264: "async with sem" acquires; line 274: the agent is suspended in
\* open_connection
Acquire(a) ==
  /\ cpc[a] = "queued"
  /\ SemFree(sem)
  /\ sem' = sem - 1
  /\ cpc' = [cpc EXCEPT ![a] = "connect"]
  /\ UNCHANGED <<num_clients, cread, classified, ret, collected,
                 completed_clients, rpc>>
  /\ UNCHANGED svars
  /\ UNCHANGED xvars

\* lines 274-279: open_connection returns and WantGame is written, the agent
\* is suspended in readexactly(27); or open_connection raises OSError, client
\* returns 0 (line 308) and "async with" releases the semaphore
Connect(a) ==
  /\ cpc[a] = "connect"
  /\ \/ /\ cpc' = [cpc EXCEPT ![a] = "gamestart"]
        /\ UNCHANGED <<sem, ret>>
     \/ /\ cpc' = [cpc EXCEPT ![a] = "done"]
        /\ ret' = [ret EXCEPT ![a] = 0]
        /\ sem' = sem + 1
  /\ UNCHANGED <<num_clients, cread, classified, collected,
                 completed_clients, rpc>>
  /\ UNCHANGED svars
  /\ UNCHANGED xvars

\* lines 279-284: readexactly(27) returns, the first PlayCard is written and
\* the agent is suspended in readexactly(2); or the read raises
\* IncompleteReadError or ConnectionResetError and client returns 0
ReadGameStart(a) ==
  /\ cpc[a] = "gamestart"
  /\ \/ /\ cpc' = [cpc EXCEPT ![a] = "playing"]
        /\ UNCHANGED <<sem, ret>>
     \/ /\ cpc' = [cpc EXCEPT ![a] = "done"]
        /\ ret' = [ret EXCEPT ![a] = 0]
        /\ sem' = sem + 1
  /\ UNCHANGED <<num_clients, cread, classified, collected,
                 completed_clients, rpc>>
  /\ UNCHANGED svars
  /\ UNCHANGED xvars

\* lines 282-299: readexactly(2) returns a PlayResult; the next PlayCard is
\* written, or after the last card the agent classifies its score, closes
\* and returns 1; or the read raises and client returns 0.  The return
\* ends the loop and its locals and releases the semaphore.
ReadResult(a) ==
  /\ cpc[a] = "playing"
  /\ \/ IF cread[a] + 1 = HandLen
        THEN /\ cpc' = [cpc EXCEPT ![a] = "done"]
             /\ classified' = [classified EXCEPT ![a] = TRUE]
             /\ ret' = [ret EXCEPT ![a] = 1]
             /\ sem' = sem + 1
             /\ cread' = [cread EXCEPT ![a] = 0]
        ELSE /\ cread' = [cread EXCEPT ![a] = @ + 1]
             /\ UNCHANGED <<cpc, classified, ret, sem>>
     \/ /\ cpc' = [cpc EXCEPT ![a] = "done"]
        /\ ret' = [ret EXCEPT ![a] = 0]
        /\ sem' = sem + 1
        /\ cread' = [cread EXCEPT ![a] = 0]
        /\ classified' = classified
  /\ UNCHANGED <<num_clients, collected, completed_clients, rpc>>
  /\ UNCHANGED svars
  /\ UNCHANGED xvars

\* lines 339-340: as_completed hands over a finished agent, its result is
\* added to completed_clients
Collect(a) ==
  /\ rpc = "collecting"
  /\ cpc[a] = "done"
  /\ a \notin collected
  /\ collected' = collected \cup {a}
  /\ completed_clients' = Accumulate(completed_clients, ret[a])
  /\ UNCHANGED <<num_clients, sem, cpc, cread, classified, ret, rpc>>
  /\ UNCHANGED svars
  /\ UNCHANGED xvars

\* line 341: every one of the num_clients results was awaited
Return ==
  /\ rpc = "collecting"
  /\ Cardinality(collected) = num_clients
  /\ rpc' = "returned"
  /\ UNCHANGED <<num_clients, sem, cpc, cread, classified, ret, collected,
                 completed_clients>>
  /\ UNCHANGED svars
  /\ UNCHANGED xvars

(***************************************************************************)
(* client(): one agent on its connection                                   *)
(***************************************************************************)
ScoreAfter_nolose(score, result) ==
  IF result[2] = WIN THEN score + 1 ELSE score

\* lines 285-288: the score after one PlayResult message
ScoreAfter(score, result) ==
  IF result[2] = WIN THEN score + 1
  ELSE IF result[2] = LOSE THEN score - 1
  ELSE score

\* lines 290-295
Classify(score) ==
  IF score > 0 THEN "won"
  ELSE IF score < 0 THEN "lost"
  ELSE "drew"

PlayCardMsg_tagless(card) == <<WANTGAME, card>>

\* line 283: bytes([Command.PLAYCARD.value, card])
PlayCardMsg(card) == <<PLAYCARD, card>>

\* the bytes the pending readexactly of agent a asks for
Needed(a) == IF cpc[a] = "gamestart" THEN GameStartLen ELSE ResultLen

\* the other end of the connection of agent a was closed: by the peer, or by
\* kill_game when the peer is the session
PeerClosed(a) == s2c_eof[a] \/ (a \in Sides /\ Closed(a))

\* the agents of the set as are about to connect; there is no limiter
ClientInit(as) ==
  /\ num_clients = 0
  /\ sem = Ceiling
  /\ cpc = [a \in Agents |-> IF a \in as THEN "connect" ELSE "none"]
  /\ cread = [a \in Agents |-> 0]
  /\ classified = [a \in Agents |-> FALSE]
  /\ ret = [a \in Agents |-> 0]
  /\ collected = {}
  /\ completed_clients = 0
  /\ rpc = "idle"

\* lines 274-279: open_connection returns, WantGame is written, the agent
\* waits in readexactly(27)
CliConnect(a) ==
  /\ cpc[a] = "connect"
  /\ c2s' = [c2s EXCEPT ![a] = @ \o <<WANTGAME, 0>>]
  /\ cpc' = [cpc EXCEPT ![a] = "gamestart"]
  /\ UNCHANGED <<num_clients, sem, cread, classified, ret, collected,
                 completed_clients, rpc>>
  /\ UNCHANGED <<sbuf, s2c, s2c_eof, card_msg, myscore, outcome>>
  /\ UNCHANGED <<svars, rvars, dvars, mvars>>

\* lines 274 and 306-308: open_connection raises OSError, client returns 0
CliOSError(a) ==
  /\ cpc[a] = "connect"
  /\ cpc' = [cpc EXCEPT ![a] = "done"]
  /\ ret' = [ret EXCEPT ![a] = 0]
  /\ UNCHANGED <<num_clients, sem, cread, classified, collected,
                 completed_clients, rpc>>
  /\ UNCHANGED nvars
  /\ UNCHANGED <<svars, rvars, dvars, mvars>>

\* lines 279-284: readexactly(27) returns, myscore = 0, the loop starts: the
\* first card of card_msg[1:] is written, the agent waits in readexactly(2)
CliReadGameStart(a) ==
  /\ cpc[a] = "gamestart"
  /\ Len(s2c[a]) >= GameStartLen
  /\ LET msg == SubSeq(s2c[a], 1, GameStartLen)
     IN  /\ card_msg' = [card_msg EXCEPT ![a] = msg]
         /\ c2s' = [c2s EXCEPT ![a] = @ \o PlayCardMsg(msg[2])]
  /\ s2c' = [s2c EXCEPT ![a] = Drop(@, GameStartLen)]
  /\ myscore' = [myscore EXCEPT ![a] = 0]
  /\ cpc' = [cpc EXCEPT ![a] = "playing"]
  /\ UNCHANGED <<num_clients, sem, cread, classified, ret, collected,
                 completed_clients, rpc>>
  /\ UNCHANGED <<sbuf, s2c_eof, outcome>>
  /\ UNCHANGED <<svars, rvars, dvars, mvars>>

\* lines 284-299: readexactly(2) returns a result and the score follows it;
\* then the next card is written, or after the last card the score is
\* classified, the writer closed and 1 returned
CliReadResult(a) ==
  /\ cpc[a] = "playing"
  /\ Len(s2c[a]) >= ResultLen
  /\ myscore' = [myscore EXCEPT
                   ![a] = ScoreAfter(@, SubSeq(s2c[a], 1, ResultLen))]
  /\ s2c' = [s2c EXCEPT ![a] = Drop(@, ResultLen)]
  /\ cread' = [cread EXCEPT ![a] = @ + 1]
  /\ IF cread[a] + 1 = Len(card_msg[a]) - 1
     THEN /\ outcome' = [outcome EXCEPT ![a] = Classify(myscore'[a])]
          /\ classified' = [classified EXCEPT ![a] = TRUE]
          /\ ret' = [ret EXCEPT ![a] = 1]
          /\ cpc' = [cpc EXCEPT ![a] = "done"]
          /\ c2s' = c2s
     ELSE /\ c2s' = [c2s EXCEPT
                       ![a] = @ \o PlayCardMsg(card_msg[a][cread[a] + 3])]
          /\ UNCHANGED <<outcome, classified, ret, cpc>>
  /\ UNCHANGED <<num_clients, sem, collected, completed_clients, rpc>>
  /\ UNCHANGED <<sbuf, s2c_eof, card_msg>>
  /\ UNCHANGED <<svars, rvars, dvars, mvars>>

\* lines 279, 284 and 303-305: the stream ends before the bytes asked for,
\* readexactly raises IncompleteReadError, client returns 0
CliIncompleteRead(a) ==
  /\ cpc[a] \in {"gamestart", "playing"}
  /\ PeerClosed(a)
  /\ Len(s2c[a]) < Needed(a)
  /\ cpc' = [cpc EXCEPT ![a] = "done"]
  /\ ret' = [ret EXCEPT ![a] = 0]
  /\ UNCHANGED <<num_clients, sem, cread, classified, collected,
                 completed_clients, rpc>>
  /\ UNCHANGED nvars
  /\ UNCHANGED <<svars, rvars, dvars, mvars>>

\* lines 279, 284 and 300-302: the connection is reset under the pending
\* read, ConnectionResetError, client returns 0
CliReset(a) ==
  /\ cpc[a] \in {"gamestart", "playing"}
  /\ cpc' = [cpc EXCEPT ![a] = "done"]
  /\ ret' = [ret EXCEPT ![a] = 0]
  /\ UNCHANGED <<num_clients, sem, cread, classified, collected,
                 completed_clients, rpc>>
  /\ UNCHANGED nvars
  /\ UNCHANGED <<svars, rvars, dvars, mvars>>

(***************************************************************************)
(* One agent against a server that may send anything ("client" mode)       *)
(***************************************************************************)
ClientAgent == 1

\* the hands such a server deals
ClientHands ==
  {SubSeq(Affine(3, 0), 1, HalfDeck), SubSeq(Affine(5, 7), 1, HalfDeck)}

\* what such a server writes in one piece: 27 bytes behind the GameStart
\* tag or behind another tag, a PlayResult with a result byte or with
\* another byte, or a single byte
ServerMsgs ==
  {<<t>> \o h : t \in {GAMESTART, WANTGAME}, h \in ClientHands}
    \cup {<<PLAYRESULT, r>> : r \in {WIN, DRAW, LOSE, 7}}
    \cup {<<PLAYRESULT>>}

\* the server writes its next message once the agent has read the last one
SrvWrite(a) ==
  /\ cpc[a] \in {"gamestart", "playing"}
  /\ ~s2c_eof[a]
  /\ s2c[a] = <<>>
  /\ \E m \in ServerMsgs : s2c' = [s2c EXCEPT ![a] = m]
  /\ UNCHANGED <<c2s, sbuf, s2c_eof, card_msg, myscore, outcome>>
  /\ UNCHANGED <<svars, lvars, rvars, dvars, mvars>>

\* the server closes the connection
SrvClose(a) ==
  /\ cpc[a] \in {"gamestart", "playing"}
  /\ ~s2c_eof[a]
  /\ s2c_eof' = [s2c_eof EXCEPT ![a] = TRUE]
  /\ UNCHANGED <<c2s, sbuf, s2c, card_msg, myscore, outcome>>
  /\ UNCHANGED <<svars, lvars, rvars, dvars, mvars>>

InitClient ==
  /\ SessionInit /\ ClientInit({ClientAgent})
  /\ ReadIdle /\ DealIdle /\ NetIdle /\ ServeIdle

NextClient ==
  \/ CliConnect(ClientAgent)
  \/ CliOSError(ClientAgent)
  \/ CliReadGameStart(ClientAgent)
  \/ CliReadResult(ClientAgent)
  \/ CliIncompleteRead(ClientAgent)
  \/ CliReset(ClientAgent)
  \/ SrvWrite(ClientAgent)
  \/ SrvClose(ClientAgent)

SpecClient == InitClient /\ [][NextClient]_vars

(***************************************************************************)
(* One session and its two agents, no I/O failure: every sendall goes      *)
(* through and no recv raises on an open socket; the network is free to    *)
(* hand the bytes an agent wrote to the server in pieces.                  *)
(***************************************************************************)
\* the decks dealt in these games
GameDecks ==
  {RotHalf(Affine(3, 0), 0), RotHalf(Affine(3, 0), 1),
   RotHalf(Affine(5, 7), 5)}

\* player.recv(byte_buffer) on a socket with bytes waiting
Take(s) == SubSeq(sbuf[s], 1, Min(byte_buffer, Len(sbuf[s])))

\* some of the bytes agent s wrote reach the socket of the server
NetDeliver(s) ==
  /\ pc # "done"
  /\ ~Closed(s)
  /\ c2s[s] # <<>>
  /\ \E k \in 1..Len(c2s[s]) :
       /\ sbuf' = [sbuf EXCEPT ![s] = @ \o SubSeq(c2s[s], 1, k)]
       /\ c2s' = [c2s EXCEPT ![s] = Drop(@, k)]
  /\ UNCHANGED <<s2c, s2c_eof, card_msg, myscore, outcome>>
  /\ UNCHANGED <<svars, lvars, rvars, dvars, mvars>>

\* line 121
GameRecvWantGame1 ==
  /\ pc = "wg1"
  /\ sbuf[1] # <<>>
  /\ player_one_data' = Take(1)
  /\ sbuf' = [sbuf EXCEPT ![1] = Drop(@, Len(Take(1)))]
  /\ ioCalls' = ioCalls + 1
  /\ pc' = "wg2"
  /\ UNCHANGED <<exit, round, ready, closes, gsSent, prSent, recvd,
                 player_two_data, player_one_play_card, player_two_play_card,
                 player_one_result, player_two_result>>
  /\ UNCHANGED <<c2s, s2c, s2c_eof, card_msg, myscore, outcome>>
  /\ UNCHANGED <<lvars, rvars, dvars, mvars>>

\* lines 122-132: the second recv, the WantGame test, deal_cards
GameRecvWantGame2 ==
  /\ pc = "wg2"
  /\ sbuf[2] # <<>>
  /\ player_two_data' = Take(2)
  /\ sbuf' = [sbuf EXCEPT ![2] = Drop(@, Len(Take(2)))]
  /\ ioCalls' = ioCalls + 1
  /\ IF ~IsWantGame(player_one_data) \/ ~IsWantGame(Take(2))
     THEN /\ closes' = kill_game(closes)
          /\ pc' = "done"
          /\ exit' = "badwantgame"
          /\ UNCHANGED <<card_deck, player_one_hand, player_two_hand>>
     ELSE /\ closes' = closes
          /\ pc' = "sendgs"
          /\ exit' = exit
          /\ \E deck \in GameDecks :
               /\ card_deck' = deck
               /\ player_one_hand' = deal_cards(deck)[1]
               /\ player_two_hand' = deal_cards(deck)[2]
  /\ UNCHANGED <<round, ready, gsSent, prSent, recvd, player_one_data,
                 player_one_play_card, player_two_play_card,
                 player_one_result, player_two_result>>
  /\ UNCHANGED <<c2s, s2c, s2c_eof, card_msg, myscore, outcome>>
  /\ UNCHANGED <<gs_wire, d_pc>>
  /\ UNCHANGED <<lvars, rvars, mvars>>

\* lines 135-147: both sendall of the GameStart messages return
GameSendGameStart ==
  /\ pc = "sendgs"
  /\ s2c' = [a \in Agents |->
               IF a = 1 THEN s2c[a] \o player_one_hand
               ELSE IF a = 2 THEN s2c[a] \o player_two_hand
               ELSE s2c[a]]
  /\ gsSent' = [s \in Sides |-> gsSent[s] + 1]
  /\ ioCalls' = ioCalls + 2
  /\ round' = 1
  /\ pc' = "r_recv1"
  /\ UNCHANGED <<exit, ready, closes, prSent, recvd, player_one_data,
                 player_two_data, player_one_play_card, player_two_play_card,
                 player_one_result, player_two_result>>
  /\ UNCHANGED <<c2s, sbuf, s2c_eof, card_msg, myscore, outcome>>
  /\ UNCHANGED <<lvars, rvars, dvars, mvars>>

\* lines 150-151, and 153-155 when the socket was closed by kill_game
GameRoundRecv1 ==
  /\ pc = "r_recv1"
  /\ ioCalls' = ioCalls + 1
  /\ IF Closed(1)
     THEN /\ closes' = kill_game(closes)
          /\ pc' = "r_decode"
          /\ UNCHANGED <<player_one_play_card, sbuf, recvd>>
     ELSE /\ sbuf[1] # <<>>
          /\ player_one_play_card' = Take(1)
          /\ sbuf' = [sbuf EXCEPT ![1] = Drop(@, Len(Take(1)))]
          /\ recvd' = [recvd EXCEPT ![1] = @ + 1]
          /\ closes' = closes
          /\ pc' = "r_recv2"
  /\ UNCHANGED <<exit, round, ready, gsSent, prSent, player_one_data,
                 player_two_data, player_two_play_card,
                 player_one_result, player_two_result>>
  /\ UNCHANGED <<c2s, s2c, s2c_eof, card_msg, myscore, outcome>>
  /\ UNCHANGED <<lvars, rvars, dvars, mvars>>

\* line 152, and 153-155 when the socket was closed by kill_game
GameRoundRecv2 ==
  /\ pc = "r_recv2"
  /\ ioCalls' = ioCalls + 1
  /\ IF Closed(2)
     THEN /\ closes' = kill_game(closes)
          /\ UNCHANGED <<player_two_play_card, sbuf, recvd>>
     ELSE /\ sbuf[2] # <<>>
          /\ player_two_play_card' = Take(2)
          /\ sbuf' = [sbuf EXCEPT ![2] = Drop(@, Len(Take(2)))]
          /\ recvd' = [recvd EXCEPT ![2] = @ + 1]
          /\ closes' = closes
  /\ pc' = "r_decode"
  /\ UNCHANGED <<exit, round, ready, gsSent, prSent, player_one_data,
                 player_two_data, player_one_play_card,
                 player_one_result, player_two_result>>
  /\ UNCHANGED <<c2s, s2c, s2c_eof, card_msg, myscore, outcome>>
  /\ UNCHANGED <<lvars, rvars, dvars, mvars>>

\* lines 183-214: the results of the round; both sendall return, or the
\* first raises on a socket kill_game closed
GameRoundResult ==
  /\ pc = "r_result"
  /\ LET res == PackResults(compare_cards(CardOf(player_one_data),
                                          CardOf(player_two_data)))
     IN  /\ player_one_result' = res[1]
         /\ player_two_result' = res[2]
         /\ IF Closed(1)
            THEN /\ ioCalls' = ioCalls + 1
                 /\ closes' = kill_game(closes)
                 /\ UNCHANGED <<prSent, s2c>>
            ELSE /\ ioCalls' = ioCalls + 2
                 /\ closes' = closes
                 /\ prSent' = [s \in Sides |-> prSent[s] + 1]
                 /\ s2c' = [a \in Agents |->
                              IF a = 1 THEN s2c[a] \o res[1]
                              ELSE IF a = 2 THEN s2c[a] \o res[2]
                              ELSE s2c[a]]
  /\ pc' = "r_next"
  /\ UNCHANGED <<exit, round, ready, gsSent, recvd, player_one_data,
                 player_two_data, player_one_play_card, player_two_play_card>>
  /\ UNCHANGED <<c2s, sbuf, s2c_eof, card_msg, myscore, outcome>>
  /\ UNCHANGED <<lvars, rvars, dvars, mvars>>

GameSessionStep ==
  \/ GameRecvWantGame1
  \/ GameRecvWantGame2
  \/ GameSendGameStart
  \/ GameRoundRecv1
  \/ GameRoundRecv2
  \/ RoundDecode
  \/ GameRoundResult
  \/ RoundNext

InitGame ==
  /\ SessionInit /\ ClientInit(Sides)
  /\ ReadIdle /\ DealIdle /\ NetIdle /\ ServeIdle

NextGame ==
  \/ \E a \in Sides : CliConnect(a)
  \/ \E a \in Sides : CliReadGameStart(a)
  \/ \E a \in Sides : CliReadResult(a)
  \/ \E a \in Sides : CliIncompleteRead(a)
  \/ \E s \in Sides : NetDeliver(s)
  \/ GameRecvWantGame1
  \/ GameRecvWantGame2
  \/ GameSendGameStart
  \/ GameRoundRecv1
  \/ GameRoundRecv2
  \/ RoundDecode
  \/ GameRoundResult
  \/ RoundNext

SpecGame == InitGame /\ [][NextGame]_vars

(***************************************************************************)
(* serve_game and the agents of the limiter: the listener pairs the        *)
(* connections in the order they were made and starts one thread for each  *)
(* pair.  A game is named after the agent accepted as its player one; of   *)
(* a game only what its agents see is kept: whether GameStart was sent,    *)
(* the rounds whose results were sent, and how it ended.  The agents run   *)
(* the same code and are launched and connected lowest first.              *)
(***************************************************************************)
ServeAgents == 1..MaxServe

\* the states in which the thread of a game has ended
GameOver == {"refused", "killed", "crashed", "completed"}

\* accept() has returned the connection of agent a
Accepted(a) == a = first_player \/ partner[a] # 0

\* the game agent a plays in (0: none yet)
GameOf(a) == IF gst[a] # "none" THEN a ELSE partner[a]

\* agent a has connected and written WantGame, its connection waits in the
\* backlog of the listening socket
Waiting(a) == cpc[a] = "gamestart" /\ ~Accepted(a)

\* the connection accept() returns next
NextWaiting(a) ==
  Waiting(a) /\ \A b \in ServeAgents : b < a => ~Waiting(b)

ListenerFree_join(sts) == \A g \in DOMAIN sts : sts[g] \in GameOver \cup {"none"}

\* line 256: new_game_thread.start() returns at once and the thread is never
\* joined: the loop is back in accept() whatever the games do
ListenerFree(sts) == TRUE

\* lines 329-338 with the ceiling (1000 at line 329) above the agent count
ServeClientsInit ==
  /\ num_clients \in 0..MaxServe
  /\ sem = MaxServe
  /\ cpc = [a \in ServeAgents |->
              IF a <= num_clients THEN "queued" ELSE "none"]
  /\ cread = [a \in ServeAgents |-> 0]
  /\ classified = [a \in ServeAgents |-> FALSE]
  /\ ret = [a \in ServeAgents |-> 0]
  /\ collected = {}
  /\ completed_clients = 0
  /\ rpc = "collecting"

\* lines 240-245: the socket listens, the listener is in its first accept
ServeListenerInit ==
  /\ lpc = "accept1"
  /\ first_player = 0
  /\ partner = [a \in ServeAgents |-> 0]
  /\ gst = [a \in ServeAgents |-> "none"]
  /\ grnd = [a \in ServeAgents |-> 0]

\* line 245: accept() returns the connection of player one
Accept1(a) ==
  /\ lpc = "accept1"
  /\ ListenerFree(gst)
  /\ NextWaiting(a)
  /\ first_player' = a
  /\ lpc' = "accept2"
  /\ UNCHANGED <<partner, gst, grnd>>
  /\ UNCHANGED <<svars, lvars, rvars, dvars, nvars>>

\* lines 248-256: accept() returns the connection of player two, the thread
\* of the game is started with the two connections
Accept2(b) ==
  /\ lpc = "accept2"
  /\ NextWaiting(b)
  /\ partner' = [partner EXCEPT ![first_player] = b, ![b] = first_player]
  /\ gst' = [gst EXCEPT ![first_player] = "handshake"]
  /\ first_player' = 0
  /\ lpc' = "accept1"
  /\ UNCHANGED grnd
  /\ UNCHANGED <<svars, lvars, rvars, dvars, nvars>>

\* lines 121-140: both WantGame are read, the hands are dealt and sent
GameHandshake(g) ==
  /\ gst[g] = "handshake"
  /\ gst' = [gst EXCEPT ![g] = "play"]
  /\ UNCHANGED <<lpc, first_player, partner, grnd>>
  /\ UNCHANGED <<svars, lvars, rvars, dvars, nvars>>

\* lines 150-214: both agents have written the card of the next round; the
\* cards are read, compared and the two results sent
GameRound(g) ==
  /\ gst[g] = "play"
  /\ grnd[g] < LastRound
  /\ \A a \in {g, partner[g]} : cpc[a] = "playing" /\ cread[a] = grnd[g]
  /\ grnd' = [grnd EXCEPT ![g] = @ + 1]
  /\ UNCHANGED <<lpc, first_player, partner, gst>>
  /\ UNCHANGED <<svars, lvars, rvars, dvars, nvars>>

\* line 218: the loop is over, the thread returns
GameEnd(g) ==
  /\ gst[g] = "play"
  /\ grnd[g] = LastRound
  /\ gst' = [gst EXCEPT ![g] = "completed"]
  /\ UNCHANGED <<lpc, first_player, partner, grnd>>
  /\ UNCHANGED <<svars, lvars, rvars, dvars, nvars>>

\* lines 126-128 and 138-140: the game is killed before GameStart is sent;
\* lines 153-155, 163-165, 174-180, 212-214: it is killed in a round; line
\* 161: its thread dies of UnboundLocalError in the first round and its
\* sockets are closed as they are released
GameFault(g) ==
  /\ \/ gst[g] = "handshake" /\ gst' = [gst EXCEPT ![g] = "refused"]
     \/ gst[g] = "play" /\ gst' = [gst EXCEPT ![g] = "killed"]
     \/ gst[g] = "play" /\ grnd[g] = 0 /\ gst' = [gst EXCEPT ![g] = "crashed"]
  /\ UNCHANGED <<lpc, first_player, partner, grnd>>
  /\ UNCHANGED <<svars, lvars, rvars, dvars, nvars>>

\* line 264, the coroutines started in the order of line 330
ServeAcquire(a) ==
  /\ \A b \in ServeAgents : b < a => cpc[b] # "queued"
  /\ Acquire(a)

\* lines 274-277, the connections made in that order; the server is
\* running and listening, open_connection returns
ServeConnect(a) ==
  /\ \A b \in ServeAgents : b < a => cpc[b] \notin {"queued", "connect"}
  /\ Connect(a)
  /\ cpc'[a] = "gamestart"

\* line 279: readexactly(27) returns once the game of the agent has sent
\* GameStart, and raises once the game was killed before sending it
ServeReadGameStart(a) ==
  /\ GameOf(a) # 0
  /\ ReadGameStart(a)
  /\ IF cpc'[a] = "playing"
     THEN gst[GameOf(a)] \in {"play", "killed", "crashed", "completed"}
     ELSE gst[GameOf(a)] = "refused"

\* line 284: readexactly(2) returns once the game has sent a result the
\* agent has not read, and raises once the game is over with none left
ServeReadResult(a) ==
  /\ GameOf(a) # 0
  /\ ReadResult(a)
  /\ IF cpc'[a] = "playing" \/ ret'[a] = 1
     THEN grnd[GameOf(a)] > cread[a]
     ELSE /\ gst[GameOf(a)] \in {"killed", "crashed"}
          /\ grnd[GameOf(a)] = cread[a]

InitServe ==
  /\ SessionInit /\ ServeClientsInit
  /\ ReadIdle /\ DealIdle /\ NetIdle /\ ServeListenerInit

NextServe ==
  \/ \E a \in ServeAgents : ServeAcquire(a)
  \/ \E a \in ServeAgents : ServeConnect(a)
  \/ \E a \in ServeAgents : Accept1(a)
  \/ \E a \in ServeAgents : Accept2(a)
  \/ \E g \in ServeAgents : GameHandshake(g)
  \/ \E g \in ServeAgents : GameRound(g)
  \/ \E g \in ServeAgents : GameEnd(g)
  \/ \E g \in ServeAgents : GameFault(g)
  \/ \E a \in ServeAgents : ServeReadGameStart(a)
  \/ \E a \in ServeAgents : ServeReadResult(a)
  \/ \E a \in ServeAgents : Collect(a)
  \/ Return

SpecServe == InitServe /\ [][NextServe]_vars

InitLimiter == SessionInit /\ LimiterInit /\ ExtraIdle

NextLimiter ==
  \/ \E a \in Agents : Acquire(a)
  \/ \E a \in Agents : Connect(a)
  \/ \E a \in Agents : ReadGameStart(a)
  \/ \E a \in Agents : ReadResult(a)
  \/ \E a \in Agents : Collect(a)
  \/ Return

SpecLimiter == InitLimiter /\ [][NextLimiter]_vars

Init == SessionInit /\ LimiterIdle /\ ExtraIdle

Next ==
  \/ \E s \in Sides : PeerDeliver(s)
  \/ RecvWantGame1
  \/ RecvWantGame2
  \/ SendGameStart
  \/ RoundRecv1
  \/ RoundRecv2
  \/ RoundDecode
  \/ RoundResult
  \/ RoundNext

Spec == Init /\ [][Next]_vars

\* The session thread runs whenever its next call can return; nothing makes
\* a peer send.
FairSpec == Init /\ [][Next]_vars /\ WF_vars(SessionStep)

(***************************************************************************)
(* Properties of the session                                               *)
(***************************************************************************)
\* kill_game ran, or an exception left the thread
Failed == Closed(1) \/ Closed(2) \/ exit = "crash"

\* both recv of the current round returned
BothReceived == round >= 1 /\ recvd[1] = round /\ recvd[2] = round

WellFormed(m) == m # Unbound /\ Len(m) = byte_buffer

\* both recv of the current round returned a PlayCard message
PlayCardPair ==
  /\ BothReceived
  /\ WellFormed(player_one_play_card) /\ player_one_play_card[1] = PLAYCARD
  /\ WellFormed(player_two_play_card) /\ player_two_play_card[1] = PLAYCARD

Complementary(r1, r2) ==
  \/ r1 = <<PLAYRESULT, WIN>> /\ r2 = <<PLAYRESULT, LOSE>>
  \/ r1 = <<PLAYRESULT, LOSE>> /\ r2 = <<PLAYRESULT, WIN>>
  \/ r1 = <<PLAYRESULT, DRAW>> /\ r2 = <<PLAYRESULT, DRAW>>

\* C1: on every terminal path of handle_game_clients each of the two
\* connections is closed, and closed exactly once: never twice at any
\* moment, and once when the thread has left the function.
C1_ClosedExactlyOnce ==
  /\ \A s \in Sides : closes[s] <= 1
  /\ pc = "done" => \A s \in Sides : closes[s] = 1

\* the session did not get two valid WantGame messages: a first message that
\* was read is not b'\0\0', or the recv of it raised
NoTwoWantGames ==
  /\ round = 0
  /\ \/ pc # "wg1" /\ ~IsWantGame(player_one_data)
     \/ pc \notin {"wg1", "wg2"} /\ ~IsWantGame(player_two_data)

\* C2: a session in which one of the two first messages is not a valid
\* WantGame sends no GameStart to either connection and, when it has ended,
\* has ended killed with both connections closed.
C2_BadWantGameKills ==
  NoTwoWantGames =>
    /\ \A s \in Sides : gsSent[s] = 0
    /\ pc = "done" => exit = "badwantgame" /\ \A s \in Sides : closes[s] = 1

\* C3 as stated: at the end of a round in which a pair of PlayCard messages
\* was received, each side was sent exactly one PlayResult of that round and
\* the two results are complementary.
C3_OneResultEachSide ==
  (pc = "r_next" /\ PlayCardPair) =>
    /\ \A s \in Sides : prSent[s] = round
    /\ Complementary(player_one_result, player_two_result)

\* C3 as amended: no side is ever sent more than one PlayResult per round;
\* at the end of a round in which a pair of PlayCard messages was received
\* the two results computed are complementary, side 2 was sent its result
\* only if side 1 was sent its own, and both sides were sent theirs when no
\* sendall of the round raised.
C3_ComplementaryResults ==
  /\ \A s \in Sides : prSent[s] <= round
  /\ (pc = "r_next" /\ PlayCardPair) =>
       /\ Complementary(player_one_result, player_two_result)
       /\ \A s \in Sides : prSent[s] \in {round - 1, round}
       /\ prSent[2] = round => prSent[1] = round
       /\ ~Closed(1) => \A s \in Sides : prSent[s] = round

C3_Witness ==
  /\ pc = "r_next" /\ PlayCardPair
  /\ \A s \in Sides : prSent[s] = round
  /\ player_one_result = <<PLAYRESULT, WIN>>
  /\ player_two_result = <<PLAYRESULT, LOSE>>

\* C4: the results of a round depend on the ranks a mod 13 and b mod 13 of
\* the two cards only: (Win, Lose) iff a mod 13 > b mod 13, (Lose, Win) iff
\* a mod 13 < b mod 13, (Draw, Draw) iff the ranks are equal, and
\* compare_cards(a, b) = -compare_cards(b, a).
C4_RankDecides ==
  pc = "r_next" =>
    LET a == CardOf(player_one_data)
        b == CardOf(player_two_data)
    IN  /\ (player_one_result = <<PLAYRESULT, WIN>>
              /\ player_two_result = <<PLAYRESULT, LOSE>>) <=> a % 13 > b % 13
        /\ (player_one_result = <<PLAYRESULT, LOSE>>
              /\ player_two_result = <<PLAYRESULT, WIN>>) <=> a % 13 < b % 13
        /\ (player_one_result = <<PLAYRESULT, DRAW>>
              /\ player_two_result = <<PLAYRESULT, DRAW>>) <=> a % 13 = b % 13
        /\ compare_cards(a, b) = 0 - compare_cards(b, a)

C4_Witness ==
  /\ pc = "r_next" /\ PlayCardPair
  /\ \A s \in Sides : prSent[s] = round
  /\ CardOf(player_one_data) = 13 /\ CardOf(player_two_data) = 0
  /\ player_one_result = <<PLAYRESULT, DRAW>>
  /\ player_two_result = <<PLAYRESULT, DRAW>>

\* C5: after any failure inside a session the session makes no further recv
\* or sendall call and starts no further round.
C5_FailureIsAbsorbing ==
  [][Failed => (ioCalls' = ioCalls /\ round' = round)]_vars

\* both sides delivered a well-formed message in the current round, one of
\* them with a tag that is not PlayCard, and the tags were tested
BadTagRound ==
  /\ BothReceived
  /\ pc # "r_decode"
  /\ WellFormed(player_one_play_card)
  /\ WellFormed(player_two_play_card)
  /\ \/ player_one_play_card[1] # PLAYCARD
     \/ player_two_play_card[1] # PLAYCARD

C6_Inv ==
  BadTagRound =>
    /\ pc = "done" /\ exit = "badtag"
    /\ \A s \in Sides : closes[s] = 1
    /\ \A s \in Sides : prSent[s] = round - 1

\* C6: when both sides deliver a well-formed 2-byte message in a round and
\* one of the two tags is not PlayCard, the session closes both connections
\* and sends no PlayResult for that round, and none later.
C6_BadTagKills ==
  /\ []C6_Inv
  /\ [][pc = "done" => (prSent' = prSent /\ closes' = closes)]_vars

C6_Witness ==
  /\ BadTagRound
  /\ round = 2
  /\ player_one_play_card[1] = PLAYCARD
  /\ player_two_play_card[1] # PLAYCARD

\* the session thread is inside recv on connection s and nothing has arrived
BlockedOn(s) ==
  /\ ~Closed(s) /\ ~ready[s]
  /\ \/ s = 1 /\ pc \in {"wg1", "r_recv1"}
     \/ s = 2 /\ pc \in {"wg2", "r_recv2"}

\* the other peer has delivered its message of the phase: side 1's was read
\* before the recv on side 2 began, side 2's is waiting in its connection
OtherDelivered(s) == s = 2 \/ ready[2]

\* C7: a silent peer cannot block the other peer for ever: a session that
\* waits in recv on one connection while the other peer has delivered
\* eventually leaves that wait.
C7_NoIndefiniteBlock ==
  \A s \in Sides : (BlockedOn(s) /\ OtherDelivered(s)) ~> ~BlockedOn(s)

C8_Inv ==
  /\ round \in 0..LastRound
  /\ \A s \in Sides :
       /\ gsSent[s] <= 1
       /\ prSent[s] > 0 => gsSent[s] = 1
       /\ prSent[s] <= round
       /\ prSent[s] <= recvd[1] /\ prSent[s] <= recvd[2]
  /\ (~Failed /\ round >= 1) =>
       \A s \in Sides :
         /\ gsSent[s] = 1
         /\ prSent[s] = IF pc \in {"r_next", "done"} THEN round ELSE round - 1
  /\ (exit = "completed" /\ ~Failed) =>
       /\ round = LastRound
       /\ \A s \in Sides : prSent[s] = LastRound /\ recvd[s] = LastRound

\* C8: the round counter only increases, from 1 to 26, and there is no 27th
\* round; the success path completes exactly 26 rounds; each connection is
\* sent one GameStart and then one PlayResult per completed round, the one
\* of round i only after both PlayCards of round i were received.
C8_RoundsInOrder ==
  /\ []C8_Inv
  /\ [][round' = round \/ round' = round + 1]_vars

C8_Witness ==
  /\ exit = "completed" /\ ~Failed
  /\ \A s \in Sides : prSent[s] = LastRound /\ gsSent[s] = 1

(***************************************************************************)
(* Properties of the limiter                                               *)
(***************************************************************************)
\* C9: at every instant the number of agents that hold a slot of the
\* limiter is at most the ceiling, whatever num_clients is.
C9_AtMostCeilingInFlight == Cardinality(InFlight) <= Ceiling

C9_Witness ==
  /\ num_clients > Ceiling
  /\ Cardinality(InFlight) = Ceiling
  /\ \E a \in Agents : cpc[a] = "queued"

\* C10: the aggregate counts exactly the agents that played a full game to
\* their classification, once each; an agent that failed counts 0; and the
\* limiter returns only when every agent, failed or not, ran and was counted.
C10_AggregateCountsFullGames ==
  /\ \A a \in Agents : cpc[a] = "done" => (ret[a] = 1 <=> classified[a])
  /\ \A a \in Agents : cpc[a] = "done" /\ ~classified[a] => ret[a] = 0
  /\ completed_clients = Cardinality({a \in collected : classified[a]})
  /\ rpc = "returned" =>
       /\ collected = 1..num_clients
       /\ \A a \in 1..num_clients : cpc[a] = "done"
       /\ completed_clients =
            Cardinality({a \in 1..num_clients : classified[a]})

C10_Witness ==
  /\ rpc = "returned"
  /\ num_clients = MaxClients
  /\ \E a \in Agents : cpc[a] = "done" /\ ~classified[a]
  /\ completed_clients = MaxClients - 1

(***************************************************************************)
(* Properties of readexactly                                               *)
(***************************************************************************)
\* C15: when a recv returns zero bytes before numbytes bytes have been
\* accumulated, readexactly ends with a failure and does not read again.
C15_ZeroReadEndsTheRead ==
  rx_zero >= 1 => rx_pc = "failed" /\ rx_zero = 1

\* C18: when readexactly(sock, n) returns, it returns exactly n bytes, the
\* first n of the stream in order, and has consumed no byte beyond the n-th.
C18_ReturnsExactlyN ==
  rx_pc = "returned" =>
    /\ Len(rx_data) = rx_n
    /\ rx_data = SubSeq(rx_all, 1, rx_n)
    /\ rx_wire = Drop(rx_all, rx_n)

(***************************************************************************)
(* Properties of deal_cards                                                *)
(***************************************************************************)
\* C16: every deal produces two hands of exactly 26 cards that are disjoint
\* and whose union is {0..51}; the GameStart message sent to side 1 is tag 1
\* and the first 26 cards of the shuffled deck, the one sent to side 2 tag 1
\* and the last 26, 27 bytes each.
C16_DealSplitsTheDeck ==
  /\ d_pc \in {"send", "sent"} =>
       LET h1 == Drop(player_one_hand, 1)
           h2 == Drop(player_two_hand, 1)
       IN  /\ Len(h1) = 26 /\ Len(h2) = 26
           /\ Cardinality(Range(h1)) = 26 /\ Cardinality(Range(h2)) = 26
           /\ Range(h1) \cap Range(h2) = {}
           /\ Range(h1) \cup Range(h2) = 0..51
  /\ d_pc = "sent" =>
       /\ Len(gs_wire[1]) = 27 /\ Len(gs_wire[2]) = 27
       /\ gs_wire[1][1] = 1 /\ gs_wire[2][1] = 1
       /\ \A i \in 1..26 : /\ gs_wire[1][i + 1] = card_deck[i]
                           /\ gs_wire[2][i + 1] = card_deck[26 + i]

C16_Witness ==
  /\ d_pc = "sent"
  /\ card_deck[1] = 51
  /\ gs_wire[1][2] = 51
  /\ gs_wire[2][2] # card_deck[1]

(***************************************************************************)
(* Properties of client()                                                  *)
(***************************************************************************)
\* the PlayCard messages agent a has written
CardsWritten(a) == (Len(c2s[a]) - 2) \div 2

C12_Inv ==
  LET a == ClientAgent
      w == CardsWritten(a)
  IN  /\ cpc[a] = "connect" => c2s[a] = <<>>
      /\ c2s[a] # <<>> =>
           /\ SubSeq(c2s[a], 1, 2) = <<0, 0>>
           /\ Len(c2s[a]) = 2 + 2 * w
           /\ \A j \in 1..w : /\ c2s[a][2 * j + 1] = 2
                              /\ c2s[a][2 * j + 2] = card_msg[a][j + 1]
           /\ w = IF card_msg[a] = <<>> THEN 0
                  ELSE IF cread[a] < 26 THEN cread[a] + 1 ELSE 26
      /\ card_msg[a] # <<>> => Len(card_msg[a]) = 27
      /\ (cpc[a] = "done" /\ ret[a] = 1) =>
           /\ cread[a] = 26 /\ w = 26
           /\ outcome[a] = (IF myscore[a] > 0 THEN "won"
                            ELSE IF myscore[a] < 0 THEN "lost" ELSE "drew")
      /\ cread[a] < 26 => outcome[a] = "none" /\ ret[a] = 0

C12_Step ==
  LET a == ClientAgent
  IN  /\ card_msg[a] # <<>> => card_msg'[a] = card_msg[a]
      /\ cread'[a] = cread[a] \/ cread'[a] = cread[a] + 1
      /\ cread'[a] = cread[a] + 1 =>
           myscore'[a] - myscore[a] =
             (IF s2c[a][2] = 0 THEN 1 ELSE IF s2c[a][2] = 2 THEN -1 ELSE 0)
      /\ cread'[a] = cread[a] =>
           (card_msg[a] # <<>> => myscore'[a] = myscore[a])

\* C12: the agent writes WantGame once, reads one GameStart, then writes the
\* PlayCard of the i-th card of the hand it read, in hand order, the one of
\* card i+1 only after it has read the PlayResult of round i; its score
\* moves by +1 on Win, -1 on Lose and 0 on Draw; it reports a completed game
\* only after exactly 26 PlayResults.
C12_LockStep == []C12_Inv /\ [][C12_Step]_vars

C12_Witness ==
  /\ cpc[ClientAgent] = "done" /\ ret[ClientAgent] = 1
  /\ cread[ClientAgent] = 26
  /\ card_msg[ClientAgent][1] = 1
  /\ myscore[ClientAgent] = -3
  /\ outcome[ClientAgent] = "lost"

\* C13: when the 27 bytes read do not begin with the GameStart tag, or the
\* stream ends before 27 bytes, the agent plays no card and reports a failed
\* outcome (0), not a completed game.
C13_BadGameStartFails ==
  LET a == ClientAgent
      bad == \/ card_msg[a] # <<>> /\ card_msg[a][1] # GAMESTART
             \/ card_msg[a] = <<>> /\ cpc[a] = "done"
  IN  bad => /\ CardsWritten(a) <= 0
             /\ ret[a] = 0
             /\ cpc[a] = "done"

(***************************************************************************)
(* Properties of a session with its two agents                             *)
(***************************************************************************)
\* C17: the reads of the session are message-exact: every message an agent
\* wrote is read whole, also when it arrives in two pieces of one byte, and
\* is accepted; the session of two agents is never killed for it.
C17_WholeMessagesRead ==
  /\ pc # "wg1" => Len(player_one_data) = 2
  /\ pc \notin {"wg1", "wg2"} => Len(player_two_data) = 2
  /\ player_one_play_card # Unbound => Len(player_one_play_card) = 2
  /\ player_two_play_card # Unbound => Len(player_two_play_card) = 2
  /\ \A s \in Sides : ~Closed(s)
  /\ exit \notin {"badwantgame", "badtag"}

\* C19: two agents paired in one session, with no I/O failure: the session
\* ends having completed its 26 rounds, each agent has read 26 PlayResults
\* when it ends, and reports a completed game (1).
C19_GameCompletes ==
  /\ \A a \in Sides : cpc[a] = "done" => ret[a] = 1 /\ cread[a] = 26
  /\ pc = "done" =>
       exit = "completed" /\ \A s \in Sides : prSent[s] = LastRound

\* C20: after each round, and at the end of a game both agents completed,
\* the scores of the two agents sum to zero; one agent says won iff the
\* other says lost, and one says drew iff the other does.
C20_ScoresSumToZero ==
  /\ (cread[1] = cread[2] /\ card_msg[1] # <<>> /\ card_msg[2] # <<>>) =>
       myscore[1] + myscore[2] = 0
  /\ (cpc[1] = "done" /\ cpc[2] = "done" /\ ret[1] = 1 /\ ret[2] = 1) =>
       /\ outcome[1] = "won" <=> outcome[2] = "lost"
       /\ outcome[1] = "lost" <=> outcome[2] = "won"
       /\ outcome[1] = "drew" <=> outcome[2] = "drew"

C20_Witness ==
  /\ cpc[1] = "done" /\ cpc[2] = "done" /\ ret[1] = 1 /\ ret[2] = 1
  /\ myscore[1] # 0
  /\ outcome[1] \in {"won", "lost"}
  /\ exit = "completed"

(***************************************************************************)
(* Properties of the server with the agents of the limiter                 *)
(***************************************************************************)
\* C11: for every agent count N, as long as the limiter has not returned its
\* aggregate something can still happen: no state is reached in which an
\* agent waits and nothing will ever wake it.
C11_NoAgentWaitsForever == rpc # "returned" => ENABLED NextServe

\* the games other than h, and their agents, are the same after the step
OthersUntouched(h) ==
  \A g \in ServeAgents \ {h} :
    /\ gst'[g] = gst[g] /\ grnd'[g] = grnd[g]
    /\ (gst[g] # "none") =>
         \A a \in {g, partner[g]} :
           /\ cpc'[a] = cpc[a] /\ cread'[a] = cread[a] /\ ret'[a] = ret[a]
           /\ partner'[a] = partner[a]

\* C14, the listener: it is always in one of its two accept calls, and a
\* connection that waits is accepted next whatever the games are doing.
C14_Inv ==
  /\ lpc \in {"accept1", "accept2"}
  /\ \A a \in ServeAgents :
       NextWaiting(a) => ENABLED (Accept1(a) \/ Accept2(a))

\* C14, the sessions: a step of a game, its end by kill or crash included,
\* and a step of the listener change neither the state and the rounds of
\* another game nor anything of the agents of another game.
C14_Step ==
  /\ \A h \in ServeAgents :
       (GameHandshake(h) \/ GameRound(h) \/ GameEnd(h) \/ GameFault(h))
         => OthersUntouched(h)
  /\ \A a \in ServeAgents :
       Accept1(a) => OthersUntouched(0)
  /\ \A b \in ServeAgents :
       Accept2(b) => OthersUntouched(first_player)

\* C14: the listener never waits for a session, and a stalled, killed or
\* crashed session neither keeps the next pair from being accepted and
\* served nor changes another session.
C14_ListenerNeverWaits == []C14_Inv /\ [][C14_Step]_vars

\* a pair is served to its 5th round after an earlier game was killed, and
\* while another game has crashed or sits in its handshake
C14_Witness ==
  \E g, h \in ServeAgents :
    /\ g # h
    /\ gst[g] \in {"killed", "crashed", "handshake"}
    /\ gst[h] = "play" /\ grnd[h] >= 5
    /\ \E k \in ServeAgents : gst[k] = "killed"

====
